---- MODULE Spec2Model ----
(***************************************************************************)
(* The everywhere CLI: one command invocation per step.  A step runs the   *)
(* root command's PersistentPreRunE (initConfig) and then the command's    *)
(* RunE, to completion, against a remote API whose answers are chosen by   *)
(* the environment.  Strings the code inspects (tokens, prompt answers,    *)
(* paths) are sequences of one-character strings; strings it only passes   *)
(* on (response bodies, emails, sandbox names) are plain strings.          *)
(***************************************************************************)
EXTENDS Integers, Sequences, FiniteSets, TLC

VARIABLES
    cfgFile,      \* ~/.everywhere/config.json: [state, auth_token, user_email]
    fsys,         \* the local file system: path -> [kind, data]
    last,         \* what the last command invocation did (its trace and results)
    sinceLogout,  \* TRUE from a successful logout until a login succeeds
    zipIn,        \* archive builder: the directory tree and host given to it
    zipOut        \* archive builder: the result of createZipFromDir on zipIn

vars == <<cfgFile, fsys, last, sinceLogout, zipIn, zipOut>>

cliVars == <<cfgFile, fsys, last, sinceLogout>>

zipVars == <<zipIn, zipOut>>

----------------------------------------------------------------------------
(* strings: the Go strings package on sequences of characters *)

IsSpace(c) == c \in {" ", "\t", "\n", "\r"}

RECURSIVE TrimLeft(_)
TrimLeft(s) ==
    IF s # <<>> /\ IsSpace(Head(s)) THEN TrimLeft(Tail(s)) ELSE s

RECURSIVE TrimRight(_)
TrimRight(s) ==
    IF s # <<>> /\ IsSpace(s[Len(s)]) THEN TrimRight(SubSeq(s, 1, Len(s) - 1)) ELSE s

TrimSpace(s) == TrimRight(TrimLeft(s))

LowerChar(c) ==
    CASE c = "Y" -> "y"
      [] c = "E" -> "e"
      [] c = "S" -> "s"
      [] c = "N" -> "n"
      [] c = "Z" -> "z"
      [] c = "I" -> "i"
      [] c = "P" -> "p"
      [] c = "T" -> "t"
      [] c = "G" -> "g"
      [] c = "A" -> "a"
      [] c = "R" -> "r"
      [] OTHER -> c

ToLower(s) == [i \in 1..Len(s) |-> LowerChar(s[i])]

HasSuffix(s, suf) ==
    /\ Len(s) >= Len(suf)
    /\ SubSeq(s, Len(s) - Len(suf) + 1, Len(s)) = suf

----------------------------------------------------------------------------
(* errors: a message is the sequence of fragments fmt.Errorf puts together; *)
(* the nil error is the empty message                                       *)

Lit(s) == [k |-> "lit", s |-> s, n |-> 0, cs |-> <<>>]

\* a %d verb and its argument
Num(n) == [k |-> "%d", s |-> "", n |-> n, cs |-> <<>>]

\* a %s or %v verb and its argument, a plain string
Txt(s) == [k |-> "%s", s |-> s, n |-> 0, cs |-> <<>>]

\* a %s verb and its argument, a string the code inspects
Chars(cs) == [k |-> "%s", s |-> "", n |-> 0, cs |-> cs]

NoErr == <<>>

IsErr(e) == e # NoErr

----------------------------------------------------------------------------
(* configuration: viper as config.go uses it *)

NoStr == <<>>

NoFile == [state |-> "absent", auth_token |-> NoStr, user_email |-> ""]

OkFile(tok, email) == [state |-> "ok", auth_token |-> tok, user_email |-> email]

CorruptFile == [state |-> "corrupt", auth_token |-> NoStr, user_email |-> ""]

\* a viper instance: values set with viper.Set, the bound environment
\* variables, and the values read from the config file
NewViper(env) ==
    [ovTok |-> FALSE, tok |-> NoStr, ovEmail |-> FALSE, email |-> "",
     env |-> env, cfgTok |-> NoStr, cfgEmail |-> ""]

\* viper.GetString: Set value, else non-empty environment variable, else the
\* config file's value, else the default ""
GetAuthToken(v) ==
    IF v.ovTok THEN v.tok
    ELSE IF v.env.auth_token # NoStr THEN v.env.auth_token
    ELSE v.cfgTok

GetUserEmail(v) ==
    IF v.ovEmail THEN v.email
    ELSE IF v.env.user_email # "" THEN v.env.user_email
    ELSE v.cfgEmail

\* what viper.WriteConfig and WriteConfigAs write: every key at its resolved value
AllSettings(v) == OkFile(GetAuthToken(v), GetUserEmail(v))

\* a write of the config file: the file is opened with O_TRUNC and then written
WriteConfig(v, file, fault) ==
    CASE fault = "open"  -> [err |-> <<Lit("open config.json failed")>>, file |-> file]
      [] fault = "write" -> [err |-> <<Lit("write config.json failed")>>, file |-> CorruptFile]
      [] OTHER           -> [err |-> NoErr, file |-> AllSettings(v)]

\* initConfig: [err, v, file]
initConfig(file, env, disk) ==
    LET v0 == NewViper(env) IN
    IF disk.mkdir
    THEN [err |-> <<Lit("mkdir ~/.everywhere failed")>>, v |-> v0, file |-> file]
    ELSE CASE file.state = "ok" ->
                [err |-> NoErr,
                 v |-> [v0 EXCEPT !.cfgTok = file.auth_token, !.cfgEmail = file.user_email],
                 file |-> file]
           [] file.state = "corrupt" ->
                [err |-> <<Lit("config parse error")>>, v |-> v0, file |-> file]
           [] OTHER ->
                \* no config file: ReadInConfig fails; only a ConfigFileNotFoundError
                \* makes initConfig write the file
                IF disk.typedNotFound
                THEN LET w == WriteConfig(v0, file, disk.init)
                     IN [err |-> w.err, v |-> v0, file |-> w.file]
                ELSE [err |-> <<Lit("open config.json: no such file")>>, v |-> v0, file |-> file]

saveConfig(v, file, fault) == WriteConfig(v, file, fault)

\* SetAuthToken, SetUserEmail, ClearAuth: [err, v, file]
SetAuthToken(v, file, token, fault) ==
    LET v1 == [v EXCEPT !.ovTok = TRUE, !.tok = token]
        w == saveConfig(v1, file, fault)
    IN [err |-> w.err, v |-> v1, file |-> w.file]

\* SetUserEmail as it would be without its saveConfig
SetUserEmailUnsaved(v, file, email, fault) ==
    [err |-> NoErr, v |-> [v EXCEPT !.ovEmail = TRUE, !.email = email], file |-> file]

SetUserEmail(v, file, email, fault) ==
    LET v1 == [v EXCEPT !.ovEmail = TRUE, !.email = email]
        w == saveConfig(v1, file, fault)
    IN [err |-> w.err, v |-> v1, file |-> w.file]

\* ClearAuth as it would be if it cleared the email only
ClearAuthKeepsToken(v, file, fault) ==
    LET v1 == [v EXCEPT !.ovEmail = TRUE, !.email = ""]
        w == saveConfig(v1, file, fault)
    IN [err |-> w.err, v |-> v1, file |-> w.file]

ClearAuth(v, file, fault) ==
    LET v1 == [v EXCEPT !.ovTok = TRUE, !.tok = NoStr, !.ovEmail = TRUE, !.email = ""]
        w == saveConfig(v1, file, fault)
    IN [err |-> w.err, v |-> v1, file |-> w.file]

isAuthenticated(v) == GetAuthToken(v) # NoStr

\* requireAuth as it would be if it never refused
requireAuthNeverRefuses(v) == NoErr

requireAuth(v) ==
    IF ~isAuthenticated(v)
    THEN <<Lit("not authenticated. Please run 'everywhere login' first")>>
    ELSE NoErr

----------------------------------------------------------------------------
(* the API client (api.go).  srv is the remote side's answer to the request *)
(* the call sends: neterr (the transport fails), status, body (raw text),   *)
(* valid (the body decodes as JSON) and the decoded fields.                 *)

StatusOK == 200

StatusCreated == 201

StatusUnauthorized == 401

NewAPIClient(baseURL, authToken) == [BaseURL |-> baseURL, AuthToken |-> authToken]

GetAPIEndpoint == "https://api.everywhere.dev/api/v1"

\* makeRequest and the HTTPClient.Do it ends with: [req, err]
makeRequest(c, method, endpoint, body, srv) ==
    [req |-> [method |-> method, url |-> <<c.BaseURL>> \o endpoint, body |-> body,
              auth |-> c.AuthToken],
     err |-> IF srv.neterr THEN <<Lit("transport error")>> ELSE NoErr]

DecodeErr == <<Lit("json decode error")>>

NoBody == [none |-> TRUE]

\* an operation's result as it would be if a failed request were sent again
ResultResends(r, err, out, data) ==
    [reqs |-> IF IsErr(err) THEN <<r.req, r.req>> ELSE <<r.req>>, err |-> err, out |-> out,
     data |-> data]

\* the shared shape of an operation's result
Result(r, err, out, data) == [reqs |-> <<r.req>>, err |-> err, out |-> out, data |-> data]

NoData == [none |-> TRUE]

\* GetAuthStatus as it would be without its 401 branch
GetAuthStatusNo401(c, srv) ==
    LET r == makeRequest(c, "GET", <<"/auth/status">>, NoBody, srv) IN
    IF IsErr(r.err) THEN Result(r, r.err, "", NoData)
    ELSE IF srv.status # StatusOK
    THEN Result(r, <<Lit("failed to get auth status: "), Num(srv.status), Lit(" - "),
                     Txt(srv.body)>>, "", NoData)
    ELSE IF ~srv.valid THEN Result(r, DecodeErr, "", NoData)
    ELSE Result(r, NoErr, "", [Authenticated |-> srv.authenticated, Email |-> srv.email])

\* GetAuthStatus as it would be if its error left out the response body
GetAuthStatusDropsBody(c, srv) ==
    LET r == makeRequest(c, "GET", <<"/auth/status">>, NoBody, srv) IN
    IF IsErr(r.err) THEN Result(r, r.err, "", NoData)
    ELSE IF srv.status = StatusUnauthorized
    THEN Result(r, <<Lit("authentication failed: "), Txt(srv.body)>>, "", NoData)
    ELSE IF srv.status # StatusOK
    THEN Result(r, <<Lit("failed to get auth status: "), Num(srv.status)>>, "", NoData)
    ELSE IF ~srv.valid THEN Result(r, DecodeErr, "", NoData)
    ELSE Result(r, NoErr, "", [Authenticated |-> srv.authenticated, Email |-> srv.email])

GetAuthStatus(c, srv) ==
    LET r == makeRequest(c, "GET", <<"/auth/status">>, NoBody, srv) IN
    IF IsErr(r.err) THEN Result(r, r.err, "", NoData)
    ELSE IF srv.status = StatusUnauthorized
    THEN Result(r, <<Lit("authentication failed: "), Txt(srv.body)>>, "", NoData)
    ELSE IF srv.status # StatusOK
    THEN Result(r, <<Lit("failed to get auth status: "), Num(srv.status), Lit(" - "),
                     Txt(srv.body)>>, "", NoData)
    ELSE IF ~srv.valid THEN Result(r, DecodeErr, "", NoData)
    ELSE Result(r, NoErr, "", [Authenticated |-> srv.authenticated, Email |-> srv.email])

ListSandboxes(c, srv) ==
    LET r == makeRequest(c, "GET", <<"/sandbox">>, NoBody, srv) IN
    IF IsErr(r.err) THEN Result(r, r.err, "", NoData)
    ELSE IF srv.status # StatusOK
    THEN Result(r, <<Lit("failed to list sandboxes: "), Txt(srv.body)>>, "", NoData)
    ELSE IF ~srv.valid THEN Result(r, DecodeErr, "", NoData)
    ELSE Result(r, NoErr, "", [Items |-> srv.items])

\* CreateSandbox as it would be if only 200 were a success
CreateSandboxOnly200(c, name, port, secrets, srv) ==
    LET createReq == [keys |-> (IF name # "" THEN {"name"} ELSE {})
                                   \cup (IF port # "" THEN {"port"} ELSE {})
                                   \cup (IF DOMAIN secrets # {} THEN {"secrets"} ELSE {}),
                      name |-> name, port |-> port, secrets |-> secrets]
        r == makeRequest(c, "POST", <<"/sandbox">>, createReq, srv)
    IN
    IF IsErr(r.err) THEN Result(r, r.err, "", NoData)
    ELSE IF srv.status # StatusOK
    THEN Result(r, <<Lit("failed to create sandbox: "), Txt(srv.body)>>, "", NoData)
    ELSE IF ~srv.valid THEN Result(r, DecodeErr, "", NoData)
    ELSE Result(r, NoErr, "", [Name |-> srv.sbname, Status |-> srv.sbstatus])

CreateSandbox(c, name, port, secrets, srv) ==
    LET createReq == [keys |-> (IF name # "" THEN {"name"} ELSE {})
                                   \cup (IF port # "" THEN {"port"} ELSE {})
                                   \cup (IF DOMAIN secrets # {} THEN {"secrets"} ELSE {}),
                      name |-> name, port |-> port, secrets |-> secrets]
        r == makeRequest(c, "POST", <<"/sandbox">>, createReq, srv)
    IN
    IF IsErr(r.err) THEN Result(r, r.err, "", NoData)
    ELSE IF srv.status # StatusOK /\ srv.status # StatusCreated
    THEN Result(r, <<Lit("failed to create sandbox: "), Txt(srv.body)>>, "", NoData)
    ELSE IF ~srv.valid THEN Result(r, DecodeErr, "", NoData)
    ELSE Result(r, NoErr, "", [Name |-> srv.sbname, Status |-> srv.sbstatus])

DeleteSandbox(c, name, srv) ==
    LET r == makeRequest(c, "DELETE", <<"/sandbox/", name>>, NoBody, srv) IN
    IF IsErr(r.err) THEN Result(r, r.err, "", NoData)
    ELSE IF srv.status # StatusOK
    THEN Result(r, <<Lit("failed to delete sandbox: "), Txt(srv.body)>>, "", NoData)
    ELSE Result(r, NoErr, "", NoData)

StartSandbox(c, name, srv) ==
    LET r == makeRequest(c, "PUT", <<"/sandbox/", name, "/start">>, NoBody, srv) IN
    IF IsErr(r.err) THEN Result(r, r.err, "", NoData)
    ELSE IF srv.status # StatusOK
    THEN Result(r, <<Lit("failed to start sandbox: "), Txt(srv.body)>>, "", NoData)
    ELSE Result(r, NoErr, "", NoData)

StopSandbox(c, name, srv) ==
    LET r == makeRequest(c, "PUT", <<"/sandbox/", name, "/stop">>, NoBody, srv) IN
    IF IsErr(r.err) THEN Result(r, r.err, "", NoData)
    ELSE IF srv.status # StatusOK
    THEN Result(r, <<Lit("failed to stop sandbox: "), Txt(srv.body)>>, "", NoData)
    ELSE Result(r, NoErr, "", NoData)

\* RunCommand as it would be if it returned the output along with the error
RunCommandKeepsOutput(c, sandboxName, command, srv) ==
    LET runReq == [keys |-> {"command"} \cup (IF sandboxName # "" THEN {"id"} ELSE {}),
                   command |-> command, id |-> sandboxName]
        r == makeRequest(c, "POST", <<"/sandbox/exec">>, runReq, srv)
    IN
    IF IsErr(r.err) THEN Result(r, r.err, "", NoData)
    ELSE IF srv.status # StatusOK
    THEN Result(r, <<Lit("failed to run command: "), Txt(srv.body)>>, "", NoData)
    ELSE IF ~srv.valid THEN Result(r, DecodeErr, "", NoData)
    ELSE IF srv.error # ""
    THEN Result(r, <<Lit("command failed: "), Txt(srv.error)>>, srv.output, NoData)
    ELSE Result(r, NoErr, srv.output, NoData)

RunCommand(c, sandboxName, command, srv) ==
    LET runReq == [keys |-> {"command"} \cup (IF sandboxName # "" THEN {"id"} ELSE {}),
                   command |-> command, id |-> sandboxName]
        r == makeRequest(c, "POST", <<"/sandbox/exec">>, runReq, srv)
    IN
    IF IsErr(r.err) THEN Result(r, r.err, "", NoData)
    ELSE IF srv.status # StatusOK
    THEN Result(r, <<Lit("failed to run command: "), Txt(srv.body)>>, "", NoData)
    ELSE IF ~srv.valid THEN Result(r, DecodeErr, "", NoData)
    ELSE IF srv.error # ""
    THEN Result(r, <<Lit("command failed: "), Txt(srv.error)>>, "", NoData)
    ELSE Result(r, NoErr, srv.output, NoData)

RunPython(c, sandboxName, code, entrypoint, srv) ==
    LET runReq == [keys |-> {"code"} \cup (IF sandboxName # "" THEN {"id"} ELSE {})
                                \cup (IF entrypoint # "" THEN {"entrypoint"} ELSE {}),
                   code |-> code, id |-> sandboxName, entrypoint |-> entrypoint]
        r == makeRequest(c, "POST", <<"/sandbox/run">>, runReq, srv)
    IN
    IF IsErr(r.err) THEN Result(r, r.err, "", NoData)
    ELSE IF srv.status # StatusOK
    THEN Result(r, <<Lit("failed to run python: "), Txt(srv.body)>>, "", NoData)
    ELSE IF ~srv.valid THEN Result(r, DecodeErr, "", NoData)
    ELSE IF srv.error # ""
    THEN Result(r, <<Lit("python execution failed: "), Txt(srv.error)>>, "", NoData)
    ELSE Result(r, NoErr, srv.output, NoData)

\* bytes.Index(s, sub) + 1: the first position of sub in s, 0 when there is none
Index(s, sub) ==
    LET at == {i \in 1..(Len(s) - Len(sub) + 1) : SubSeq(s, i, i + Len(sub) - 1) = sub} IN
    IF at = {} THEN 0 ELSE CHOOSE i \in at : \A j \in at : i <= j

FilenameTok == <<"f", "i", "l", "e", "n", "a", "m", "e", "=", "\"">>

DownloadZipName == <<"d", "o", "w", "n", "l", "o", "a", "d", ".", "z", "i", "p">>

\* the filename as it would be if a token without a closing quote ran to the end
\* of the header
dispositionFilenameUnclosed(cd) ==
    LET idx == Index(cd, FilenameTok)
        rest == SubSeq(cd, idx + 10, Len(cd))
        end == Index(rest, <<"\"">>)
    IN
    IF cd # <<>> /\ idx # 0
    THEN (IF end # 0 THEN SubSeq(rest, 1, end - 1) ELSE rest)
    ELSE DownloadZipName

\* the filename DownloadZip takes from the Content-Disposition header cd
dispositionFilename(cd) ==
    LET idx == Index(cd, FilenameTok)
        rest == SubSeq(cd, idx + 10, Len(cd))
        end == Index(rest, <<"\"">>)
    IN
    IF cd # <<>> /\ idx # 0 /\ end # 0 THEN SubSeq(rest, 1, end - 1) ELSE DownloadZipName

\* data.Body: "open" is the response stream handed to the caller unread
DownloadZip(c, sandboxID, dir, srv) ==
    LET endpoint == <<"/sandbox/", sandboxID, "/zip">>
                        \o (IF dir # "" THEN <<"?dir=", dir>> ELSE <<>>)
        r == makeRequest(c, "GET", endpoint, NoBody, srv)
    IN
    IF IsErr(r.err) THEN Result(r, r.err, "", [Filename |-> NoStr, Body |-> "none"])
    ELSE IF srv.status # StatusOK
    THEN Result(r, <<Lit("failed to download zip: "), Txt(srv.body)>>, "",
                [Filename |-> NoStr, Body |-> "closed"])
    ELSE Result(r, NoErr, "", [Filename |-> dispositionFilename(srv.cd), Body |-> "open"])

ListFiles(c, sandboxID, dir, maxDepth, srv) ==
    LET params == (IF dir # "" THEN <<"dir=", dir>> ELSE <<>>)
                      \o (IF maxDepth > 0 THEN <<"max_depth=", maxDepth>> ELSE <<>>)
        endpoint == <<"/sandbox/", sandboxID, "/files">>
                        \o (IF params # <<>> THEN <<"?">> \o params ELSE <<>>)
        r == makeRequest(c, "GET", endpoint, NoBody, srv)
    IN
    IF IsErr(r.err) THEN Result(r, r.err, "", NoData)
    ELSE IF srv.status # StatusOK
    THEN Result(r, <<Lit("failed to list files: "), Txt(srv.body)>>, "", NoData)
    ELSE IF ~srv.valid THEN Result(r, DecodeErr, "", NoData)
    ELSE Result(r, NoErr, "", [Items |-> srv.items])

UpdateFile(c, sandboxID, path, content, fileType, writeMode, srv) ==
    LET updateReq == [keys |-> {"path", "content", "type"}
                                   \cup (IF writeMode # "" THEN {"write_mode"} ELSE {}),
                      path |-> path, content |-> content, type |-> fileType,
                      write_mode |-> writeMode]
        r == makeRequest(c, "PUT", <<"/sandbox/", sandboxID, "/files">>, updateReq, srv)
    IN
    IF IsErr(r.err) THEN Result(r, r.err, "", NoData)
    ELSE IF srv.status # StatusOK
    THEN Result(r, <<Lit("failed to update file: "), Txt(srv.body)>>, "", NoData)
    ELSE Result(r, NoErr, "", NoData)

\* UploadArchive: fs is the local file system, content what the archive file holds,
\* openFails says that os.Open fails, base is filepath.Base(archivePath)
UploadArchive(c, sandboxID, archivePath, base, targetPath, format, fs, content, openFails, srv) ==
    LET fmt == IF format = "" THEN "zip" ELSE format
        form == [archive |-> [filename |-> base, content |-> content],
                 path |-> targetPath, format |-> fmt]
        r == makeRequest(c, "POST", <<"/sandbox/", sandboxID, "/upload">>, form, srv)
    IN
    IF openFails \/ archivePath \notin DOMAIN fs
    THEN [reqs |-> <<>>, err |-> <<Lit("failed to open archive: "), Lit("open error")>>,
          out |-> "", data |-> NoData]
    ELSE IF IsErr(r.err) THEN Result(r, r.err, "", NoData)
    ELSE IF srv.status # StatusOK
    THEN Result(r, <<Lit("failed to upload archive: "), Txt(srv.body)>>, "", NoData)
    ELSE Result(r, NoErr, "", NoData)

----------------------------------------------------------------------------
(* the remote API and the environment of an invocation *)

Statuses == {200, 201, 401, 500}

Bodies == {"", "{\"msg\":\"denied\"}"}

Emails == {"", "a@b.com"}

Names == {"s1"}

BaseReply ==
    [neterr |-> FALSE, status |-> 200, body |-> "", valid |-> TRUE,
     authenticated |-> FALSE, email |-> "", first |-> "", family |-> "",
     output |-> "", error |-> "", items |-> 0, sbname |-> "", sbstatus |-> "",
     cd |-> <<>>]

NoReply == [BaseReply EXCEPT !.status = 0]

NetErrReply == [BaseReply EXCEPT !.neterr = TRUE, !.status = 0]

\* the answers every endpoint can give: no answer, any status with any body
\* (decodable, with zero-valued fields), and an undecodable body
CommonReplies ==
    {NetErrReply}
        \cup {[BaseReply EXCEPT !.status = s, !.body = b] : s \in Statuses, b \in Bodies}
        \cup {[BaseReply EXCEPT !.status = s, !.valid = FALSE] : s \in {200, 201}}

AuthReplies ==
    CommonReplies
        \cup {[BaseReply EXCEPT !.authenticated = a, !.email = e, !.first = "Ada",
                                !.family = "L"] : a \in BOOLEAN, e \in Emails}

ListReplies == CommonReplies \cup {[BaseReply EXCEPT !.items = 2]}

CreateReplies ==
    CommonReplies
        \cup {[BaseReply EXCEPT !.status = s, !.sbname = n, !.sbstatus = "provisioning"] :
                s \in {200, 201}, n \in Names}

ExecReplies ==
    CommonReplies
        \cup {[BaseReply EXCEPT !.output = o, !.error = e] :
                o \in {"", "hello"}, e \in {"", "boom"}}

\* EVERYWHERE_AUTH_TOKEN and EVERYWHERE_USER_EMAIL of the invoking process
Envs == {[auth_token |-> NoStr, user_email |-> ""],
         [auth_token |-> <<"e">>, user_email |-> ""]}

SaveFaults == {"none", "open", "write"}

\* the local file system's answers to one invocation's config-file operations
Disks == [mkdir : BOOLEAN, typedNotFound : BOOLEAN, init : SaveFaults]

----------------------------------------------------------------------------
(* the commands (commands.go): each RunE gives the outcome of one run *)

NoApi == [reqs |-> <<>>, err |-> NoErr, out |-> "", data |-> NoData]

\* events: the run's trace; err: what RunE returns; out: the lines printed;
\* api: what the API client operation returned; file, fs: the config file
\* and the local file system afterwards
Outcome(events, err, out, api, file, fs) ==
    [events |-> events, err |-> err, out |-> out, api |-> api, file |-> file, fs |-> fs,
     built |-> NoStr]

\* an outcome of files upload after the archive builder returned the archive name
Built(o, name) == [o EXCEPT !.built = name]

\* a RunE that stops at requireAuth
AuthFailed(v, file, fs) ==
    Outcome(<<"requireAuth:fail">>, requireAuth(v), <<>>, NoApi, file, fs)

\* a RunE that calls one API operation right after requireAuth and prints on success
Simple(v, file, fs, api, line) ==
    IF IsErr(requireAuth(v)) THEN AuthFailed(v, file, fs)
    ELSE IF IsErr(api.err)
    THEN Outcome(<<"requireAuth:ok", "request">>, api.err, <<>>, api, file, fs)
    ELSE Outcome(<<"requireAuth:ok", "request", "print">>, NoErr, <<line>>, api, file, fs)

Client(v) == NewAPIClient(GetAPIEndpoint, GetAuthToken(v))

\* term.ReadPassword / bufio ReadString('\n') on the standard input: the text up
\* to and including the first newline, or an error when there is none
RECURSIVE IndexNL(_, _)
IndexNL(s, i) ==
    IF i > Len(s) THEN 0 ELSE IF s[i] = "\n" THEN i ELSE IndexNL(s, i + 1)

ReadString(stdin) ==
    LET i == IndexNL(stdin, 1) IN
    IF i = 0 THEN [err |-> <<Lit("EOF")>>, text |-> stdin]
    ELSE [err |-> NoErr, text |-> SubSeq(stdin, 1, i)]

\* term.ReadPassword: the line typed, without its newline; input that ends
\* without a newline is accepted unless it is empty
ReadPassword(stdin) ==
    LET i == IndexNL(stdin, 1) IN
    IF i > 0 THEN [err |-> NoErr, text |-> SubSeq(stdin, 1, i - 1)]
    ELSE IF stdin # <<>> THEN [err |-> NoErr, text |-> stdin]
    ELSE [err |-> <<Lit("EOF")>>, text |-> stdin]

\* login: args is the positional arguments (at most one), token the -t flag,
\* stdin what the user types at the prompt
loginRunE(v, file, fs, args, token, stdin, srv, disk) ==
    LET fromArg == Len(args) >= 1 /\ TrimSpace(args[1]) # NoStr
        typed == ReadPassword(stdin)
        prompted == ~fromArg /\ token = NoStr
        tokenVal == IF fromArg THEN TrimSpace(args[1])
                    ELSE IF token # NoStr THEN token
                    ELSE TrimSpace(typed.text)
        pre == (IF prompted THEN <<"prompt">> ELSE <<>>) \o <<"print">>
        authenticating == <<Lit("Authenticating with provided token...")>>
        api == GetAuthStatus(NewAPIClient(GetAPIEndpoint, tokenVal), srv)
        s1 == SetAuthToken(v, file, tokenVal, disk.save1)
        s2 == SetUserEmail(s1.v, s1.file, api.data.Email, disk.save2)
    IN
    IF prompted /\ IsErr(typed.err)
    THEN Outcome(<<"prompt">>, typed.err, <<>>, NoApi, file, fs)
    ELSE IF prompted /\ tokenVal = NoStr
    THEN Outcome(<<"prompt">>, <<Lit("token cannot be empty")>>, <<>>, NoApi, file, fs)
    ELSE IF IsErr(api.err)
    THEN Outcome(pre \o <<"request">>, <<Lit("token authentication failed: ")>> \o api.err,
                 <<authenticating>>, api, file, fs)
    ELSE IF ~api.data.Authenticated
    THEN Outcome(pre \o <<"request">>, <<Lit("invalid or expired token")>>,
                 <<authenticating>>, api, file, fs)
    ELSE IF IsErr(s1.err)
    THEN Outcome(pre \o <<"request", "save:fail">>, s1.err, <<authenticating>>, api,
                 s1.file, fs)
    ELSE IF IsErr(s2.err)
    THEN Outcome(pre \o <<"request", "save:ok", "save:fail">>, s2.err, <<authenticating>>,
                 api, s2.file, fs)
    ELSE Outcome(pre \o <<"request", "save:ok", "save:ok", "print">>, NoErr,
                 <<authenticating,
                   <<Lit("Successfully logged in as "), Txt(srv.first), Lit(" "),
                     Txt(srv.family), Lit(" ("), Txt(api.data.Email), Lit(")")>> >>,
                 api, s2.file, fs)

logoutRunE(v, file, fs, disk) ==
    LET c == ClearAuth(v, file, disk.save1) IN
    IF IsErr(c.err) THEN Outcome(<<"save:fail">>, c.err, <<>>, NoApi, c.file, fs)
    ELSE Outcome(<<"save:ok", "print">>, NoErr, << <<Lit("Successfully logged out")>> >>,
                 NoApi, c.file, fs)

sandboxListRunE(v, file, fs, srv) ==
    LET api == ListSandboxes(Client(v), srv) IN
    Simple(v, file, fs, api,
           IF IsErr(api.err) THEN <<>>
           ELSE IF api.data.Items = 0 THEN <<Lit("No sandboxes found")>>
           ELSE <<Lit("NAME STATUS IP ADDRESS CREATED"), Num(api.data.Items)>>)

\* strings.SplitN(kv, "=", 2): the index of the first "=", 0 when there is none
RECURSIVE IndexEq(_, _)
IndexEq(s, i) ==
    IF i > Len(s) THEN 0 ELSE IF s[i] = "=" THEN i ELSE IndexEq(s, i + 1)

\* the loop over envPairs as it would be if it did not trim the key and the value
RECURSIVE parseEnvUntrimmed(_, _)
parseEnvUntrimmed(envPairs, secrets) ==
    IF envPairs = <<>> THEN [err |-> NoErr, secrets |-> secrets]
    ELSE LET kv == Head(envPairs)
             i == IndexEq(kv, 1)
             k == SubSeq(kv, 1, i - 1)
             val == SubSeq(kv, i + 1, Len(kv))
         IN
         IF i = 0
         THEN [err |-> <<Lit("invalid env '"), Chars(kv), Lit("' (expected KEY=VALUE)")>>,
               secrets |-> secrets]
         ELSE IF k = NoStr
         THEN [err |-> <<Lit("empty env key in '"), Chars(kv), Lit("'")>>,
               secrets |-> secrets]
         ELSE parseEnvUntrimmed(Tail(envPairs),
                       [x \in DOMAIN secrets \cup {k} |-> IF x = k THEN val ELSE secrets[x]])

\* the loop over envPairs: [err, secrets], secrets a function from keys to values
RECURSIVE parseEnv(_, _)
parseEnv(envPairs, secrets) ==
    IF envPairs = <<>> THEN [err |-> NoErr, secrets |-> secrets]
    ELSE LET kv == Head(envPairs)
             i == IndexEq(kv, 1)
             k == TrimSpace(SubSeq(kv, 1, i - 1))
             val == TrimSpace(SubSeq(kv, i + 1, Len(kv)))
         IN
         IF i = 0
         THEN [err |-> <<Lit("invalid env '"), Chars(kv), Lit("' (expected KEY=VALUE)")>>,
               secrets |-> secrets]
         ELSE IF k = NoStr
         THEN [err |-> <<Lit("empty env key in '"), Chars(kv), Lit("'")>>,
               secrets |-> secrets]
         ELSE parseEnv(Tail(envPairs),
                       [x \in DOMAIN secrets \cup {k} |-> IF x = k THEN val ELSE secrets[x]])

sandboxCreateRunE(v, file, fs, name, port, envPairs, srv) ==
    LET p == parseEnv(envPairs, <<>>)
        api == CreateSandbox(Client(v), name, port, p.secrets, srv)
    IN
    IF IsErr(requireAuth(v)) THEN AuthFailed(v, file, fs)
    ELSE IF IsErr(p.err) THEN Outcome(<<"requireAuth:ok">>, p.err, <<>>, NoApi, file, fs)
    ELSE IF IsErr(api.err)
    THEN Outcome(<<"requireAuth:ok", "request">>, api.err, <<>>, api, file, fs)
    ELSE Outcome(<<"requireAuth:ok", "request", "print">>, NoErr,
                 << <<Lit("Sandbox '"), Txt(api.data.Name), Lit("' created")>>,
                    <<Lit("Status: "), Txt(api.data.Status)>> >>
                   \o (IF DOMAIN p.secrets # {}
                       THEN << <<Lit("Environment: "), Num(Cardinality(DOMAIN p.secrets)),
                                 Lit(" variables")>> >>
                       ELSE <<>>),
                 api, file, fs)

\* the confirmation switch as it would be if it looked at the first letter only
confirmedByFirstLetter(resp) ==
    LET t == ToLower(TrimSpace(resp)) IN t # <<>> /\ t[1] = "y"

\* the confirmation switch of delete
confirmed(resp) == ToLower(TrimSpace(resp)) \in {<<"y">>, <<"y", "e", "s">>}

sandboxDeleteRunE(v, file, fs, name, force, stdin, srv) ==
    LET typed == ReadString(stdin)
        pre == IF force THEN <<"requireAuth:ok">> ELSE <<"requireAuth:ok", "prompt">>
        api == DeleteSandbox(Client(v), name, srv)
    IN
    IF IsErr(requireAuth(v)) THEN AuthFailed(v, file, fs)
    ELSE IF ~force /\ IsErr(typed.err) THEN Outcome(pre, typed.err, <<>>, NoApi, file, fs)
    ELSE IF ~force /\ ~confirmed(typed.text)
    THEN Outcome(pre \o <<"print">>, NoErr, << <<Lit("Delete cancelled")>> >>, NoApi,
                 file, fs)
    ELSE IF IsErr(api.err) THEN Outcome(pre \o <<"request">>, api.err, <<>>, api, file, fs)
    ELSE Outcome(pre \o <<"request", "print">>, NoErr,
                 << <<Lit("Sandbox '"), Txt(name), Lit("' deleted")>> >>, api, file, fs)

sandboxStartRunE(v, file, fs, name, srv) ==
    Simple(v, file, fs, StartSandbox(Client(v), name, srv),
           <<Lit("Sandbox '"), Txt(name), Lit("' started")>>)

sandboxStopRunE(v, file, fs, name, srv) ==
    Simple(v, file, fs, StopSandbox(Client(v), name, srv),
           <<Lit("Sandbox '"), Txt(name), Lit("' stopped")>>)

execRunE(v, file, fs, sandbox, command, srv) ==
    LET api == RunCommand(Client(v), sandbox, command, srv) IN
    Simple(v, file, fs, api, <<Txt(api.out)>>)

----------------------------------------------------------------------------
(* the archive builder: createZipFromDir and createZipFromFile.  A directory *)
(* is a function from entry names to nodes; a node is a file or a directory  *)
(* with its own entries.  host is the build's GOOS.                          *)

Separator(host) == IF host = "windows" THEN "\\" ELSE "/"

FileNode == [dir |-> FALSE, kids |-> <<>>]

DirNode(t) == [dir |-> TRUE, kids |-> t]

\* the entry names in the lexical order filepath.Walk reads them in
NameOrder == <<"\\", "a", "b">>

ReplaceAll(s, old, new) == [i \in 1..Len(s) |-> IF s[i] = old THEN new ELSE s[i]]

\* filepath.Rel(dir, path) for a path Walk built below dir
Rel(dir, path) ==
    IF path = dir THEN <<".">> ELSE SubSeq(path, Len(dir) + 2, Len(path))

\* filepath.Walk: the calls of the walk function, in order, as [path, dir]
RECURSIVE walk(_, _, _, _)
walk(t, path, host, i) ==
    IF i > Len(NameOrder) THEN <<>>
    ELSE LET n == NameOrder[i]
             p == path \o <<Separator(host), n>>
         IN
         IF n \notin DOMAIN t THEN walk(t, path, host, i + 1)
         ELSE <<[path |-> p, dir |-> t[n].dir]>>
                  \o (IF t[n].dir THEN walk(t[n].kids, p, host, 1) ELSE <<>>)
                  \o walk(t, path, host, i + 1)

Walk(dir, t, host) == <<[path |-> dir, dir |-> TRUE]>> \o walk(t, dir, host, 1)

\* the walk function as it would be if it wrote an entry for the root too
walkFnKeepsRoot(dir, visit, host, failing) ==
    LET rel == Rel(dir, visit.path)
        zipName == ReplaceAll(rel, Separator(host), "/")
        name == IF visit.dir /\ ~HasSuffix(zipName, <<"/">>) THEN zipName \o <<"/">>
                ELSE zipName
        entry == [Name |-> name, Method |-> IF visit.dir THEN "Store" ELSE "Deflate"]
    IN
    IF failing /\ visit.dir
    THEN [skip |-> TRUE, err |-> <<Lit("walk error")>>, entry |-> entry]
    ELSE IF failing THEN [skip |-> FALSE, err |-> <<Lit("open error")>>, entry |-> entry]
    ELSE [skip |-> FALSE, err |-> NoErr, entry |-> entry]

\* the walk function of createZipFromDir on one call: [skip, err, entry];
\* failing says that the file system fails on this entry
walkFn(dir, visit, host, failing) ==
    LET rel == Rel(dir, visit.path)
        zipName == ReplaceAll(rel, Separator(host), "/")
        name == IF visit.dir /\ ~HasSuffix(zipName, <<"/">>) THEN zipName \o <<"/">>
                ELSE zipName
        entry == [Name |-> name, Method |-> IF visit.dir THEN "Store" ELSE "Deflate"]
    IN
    IF failing /\ visit.dir
    THEN [skip |-> TRUE, err |-> <<Lit("walk error")>>, entry |-> entry]
    ELSE IF rel = <<".">> THEN [skip |-> TRUE, err |-> NoErr, entry |-> entry]
    ELSE IF failing THEN [skip |-> FALSE, err |-> <<Lit("open error")>>, entry |-> entry]
    ELSE [skip |-> FALSE, err |-> NoErr, entry |-> entry]

\* the walk of createZipFromDir: the entries written and the error that stopped it
RECURSIVE zipWalk(_, _, _, _, _, _)
zipWalk(dir, visits, host, failAt, i, entries) ==
    IF i > Len(visits) THEN [err |-> NoErr, entries |-> entries]
    ELSE LET r == walkFn(dir, visits[i], host, i = failAt)
             es == IF r.skip THEN entries ELSE Append(entries, r.entry)
         IN
         IF IsErr(r.err) THEN [err |-> r.err, entries |-> es]
         ELSE zipWalk(dir, visits, host, failAt, i + 1, es)

\* os.CreateTemp("", "everywhere-upload-*.zip"): a name no file has
TempOrder == << <<"u", "0", ".", "z", "i", "p">>, <<"u", "1", ".", "z", "i", "p">> >>

TempNames == {TempOrder[k] : k \in 1..Len(TempOrder)}

FreeTemps(fs) == TempNames \ DOMAIN fs

\* writing path p into the file system
WithFile(fs, p, kind, data) ==
    [x \in DOMAIN fs \cup {p} |-> IF x = p THEN [kind |-> kind, data |-> data] ELSE fs[x]]

\* os.Remove(p); its error is dropped
Remove(fs, p) == [x \in DOMAIN fs \ {p} |-> fs[x]]

\* createZipFromDir: [err, name, fs]; tmpName is the name CreateTemp picks, fault
\* what fails: "temp" (CreateTemp) or nothing, failAt the walk call that fails
createZipFromDir(dir, t, host, fs, tmpName, fault, failAt) ==
    LET w == zipWalk(dir, Walk(dir, t, host), host, failAt, 1, <<>>) IN
    IF fault = "temp"
    THEN [err |-> <<Lit("create temp zip: "), Lit("no space")>>, name |-> NoStr, fs |-> fs,
          entries |-> <<>>]
    ELSE IF IsErr(w.err)
    THEN [err |-> w.err, name |-> NoStr, fs |-> WithFile(fs, tmpName, "tmp", "zip"),
          entries |-> w.entries]
    ELSE [err |-> NoErr, name |-> tmpName, fs |-> WithFile(fs, tmpName, "tmp", "zip"),
          entries |-> w.entries]

\* filepath.Base of a path without a trailing separator
Base(p, host) ==
    IF p = <<>> THEN <<".">>
    ELSE LET cut == {i \in 1..Len(p) : p[i] = Separator(host) \/ p[i] = "/"} IN
         IF cut = {} THEN p
         ELSE SubSeq(p, (CHOOSE i \in cut : \A j \in cut : j <= i) + 1, Len(p))

\* createZipFromFile as it would be if it named the entry by the whole path
createZipFromFileFullPath(filePath, host, fs, tmpName, fault) ==
    LET entry == [Name |-> filePath, Method |-> "Deflate"] IN
    IF fault = "stat" \/ filePath \notin DOMAIN fs
    THEN [err |-> <<Lit("stat file: "), Lit("no such file")>>, name |-> NoStr, fs |-> fs,
          entries |-> <<>>]
    ELSE IF fault = "temp"
    THEN [err |-> <<Lit("create temp zip: "), Lit("no space")>>, name |-> NoStr, fs |-> fs,
          entries |-> <<>>]
    ELSE IF fault = "open"
    THEN [err |-> <<Lit("open error")>>, name |-> NoStr,
          fs |-> WithFile(fs, tmpName, "tmp", "zip"), entries |-> <<entry>>]
    ELSE [err |-> NoErr, name |-> tmpName, fs |-> WithFile(fs, tmpName, "tmp", "zip"),
          entries |-> <<entry>>]

\* createZipFromFile: fault is "stat", "temp", "open" (open or copy fails) or nothing
createZipFromFile(filePath, host, fs, tmpName, fault) ==
    LET entry == [Name |-> Base(filePath, host), Method |-> "Deflate"] IN
    IF fault = "stat" \/ filePath \notin DOMAIN fs
    THEN [err |-> <<Lit("stat file: "), Lit("no such file")>>, name |-> NoStr, fs |-> fs,
          entries |-> <<>>]
    ELSE IF fault = "temp"
    THEN [err |-> <<Lit("create temp zip: "), Lit("no space")>>, name |-> NoStr, fs |-> fs,
          entries |-> <<>>]
    ELSE IF fault = "open"
    THEN [err |-> <<Lit("open error")>>, name |-> NoStr,
          fs |-> WithFile(fs, tmpName, "tmp", "zip"), entries |-> <<entry>>]
    ELSE [err |-> NoErr, name |-> tmpName, fs |-> WithFile(fs, tmpName, "tmp", "zip"),
          entries |-> <<entry>>]

\* os.ReadFile: the text of a file
ReadFile(fs, p) == <<fs[p].data>>

\* the entries of a directory of the local file system
DirTree(p) == [n \in {"a", "b"} |-> IF n = "a" THEN FileNode
                                    ELSE DirNode([m \in {"a"} |-> FileNode])]

\* files upload as it would be without the deferred os.Remove
uploadCleanupSkipped(fs, tmpZip) == fs

\* the deferred os.Remove(tmpZip) of files upload
uploadCleanup(fs, tmpZip) == Remove(fs, tmpZip)

\* the archive suffixes as they would be if only .zip counted
IsArchiveNameZipOnly(lower) == HasSuffix(lower, <<".", "z", "i", "p">>)

IsArchiveName(lower) ==
    \/ HasSuffix(lower, <<".", "z", "i", "p">>)
    \/ HasSuffix(lower, <<".", "t", "a", "r", ".", "g", "z">>)
    \/ HasSuffix(lower, <<".", "t", "g", "z">>)

\* the format detection as it would be if it always said zip
detectFormatAlwaysZip(archivePath) == "zip"

detectFormat(archivePath) ==
    LET lower == ToLower(archivePath) IN
    IF HasSuffix(lower, <<".", "t", "a", "r", ".", "g", "z">>)
           \/ HasSuffix(lower, <<".", "t", "g", "z">>)
    THEN "tar.gz" ELSE "zip"

\* files upload: fault is what the file system fails on ("temp", "stat", "open":
\* the builder's steps; "walk": the walk's call failAt; "upload": UploadArchive's
\* os.Open), tmpName the name CreateTemp picks
filesUploadRunE(v, file, fs, sandbox, inputPath, targetPath, format, host, tmpName, fault, failAt, srv) ==
    LET isDir == fs[inputPath].kind = "dir"
        builds == isDir \/ ~IsArchiveName(ToLower(inputPath))
        built == IF isDir
                 THEN createZipFromDir(inputPath, DirTree(inputPath), host, fs, tmpName,
                                       fault, IF fault = "walk" THEN failAt ELSE 0)
                 ELSE createZipFromFile(inputPath, host, fs, tmpName, fault)
        archivePath == IF builds THEN built.name ELSE inputPath
        fs1 == IF builds THEN built.fs ELSE fs
        fmt == IF format = "" THEN detectFormat(archivePath) ELSE format
        api == UploadArchive(Client(v), sandbox, archivePath, Base(archivePath, host),
                             targetPath, fmt, fs1,
                             IF builds THEN built.entries ELSE fs[inputPath].data,
                             fault = "upload", srv)
        fs2 == IF builds THEN uploadCleanup(fs1, built.name) ELSE fs1
        pre == <<"requireAuth:ok", "stat">> \o (IF builds THEN <<"build:ok">> ELSE <<>>)
        post == IF builds THEN <<"remove">> ELSE <<>>
        uploading == <<Lit("Uploading "), Chars(archivePath), Lit(" to "), Txt(sandbox),
                       Lit(":"), Txt(targetPath), Lit(" as "), Txt(fmt), Lit("...")>>
    IN
    IF IsErr(requireAuth(v)) THEN AuthFailed(v, file, fs)
    ELSE IF inputPath \notin DOMAIN fs
    THEN Outcome(<<"requireAuth:ok", "stat">>,
                 <<Lit("path not accessible: "), Lit("no such file")>>, <<>>, NoApi, file, fs)
    ELSE IF builds /\ IsErr(built.err)
    THEN Outcome(<<"requireAuth:ok", "stat", "build:fail">>,
                 <<Lit(IF isDir THEN "failed to zip directory: " ELSE "failed to zip file: ")>>
                     \o built.err,
                 <<>>, NoApi, file, built.fs)
    ELSE IF api.reqs = <<>>
    THEN Built(Outcome(pre \o <<"print">> \o post, api.err, <<uploading>>, api, file, fs2),
               IF builds THEN built.name ELSE NoStr)
    ELSE IF IsErr(api.err)
    THEN Built(Outcome(pre \o <<"print", "request">> \o post, api.err, <<uploading>>, api,
                       file, fs2),
               IF builds THEN built.name ELSE NoStr)
    ELSE Built(Outcome(pre \o <<"print", "request", "print">> \o post, NoErr,
                       <<uploading, <<Lit("Archive uploaded and extracted successfully")>> >>,
                       api, file, fs2),
               IF builds THEN built.name ELSE NoStr)

filesListRunE(v, file, fs, sandbox, srv) ==
    LET api == ListFiles(Client(v), sandbox, "", 4, srv) IN
    Simple(v, file, fs, api,
           IF IsErr(api.err) THEN <<>>
           ELSE IF api.data.Items = 0 THEN <<Lit("No files found")>>
           ELSE <<Lit("Files in sandbox '"), Txt(sandbox), Lit("':"), Num(api.data.Items)>>)

\* files download: output is the -o flag; fault is what the file system fails on
\* ("create": os.Create, "copy": io.Copy)
filesDownloadRunE(v, file, fs, sandbox, output, fault, srv) ==
    LET api == DownloadZip(Client(v), sandbox, "", srv)
        out == IF output = NoStr THEN api.data.Filename ELSE output
        downloading == <<Lit("Downloading files from "), Txt(sandbox), Lit("...")>>
    IN
    IF IsErr(requireAuth(v)) THEN AuthFailed(v, file, fs)
    ELSE IF IsErr(api.err)
    THEN Outcome(<<"requireAuth:ok", "print", "request">>, api.err, <<downloading>>, api,
                 file, fs)
    ELSE IF fault = "create" \/ out = NoStr
    THEN Outcome(<<"requireAuth:ok", "print", "request", "body:close">>,
                 <<Lit("failed to create output file: "), Lit("create error")>>,
                 <<downloading>>, api, file, fs)
    ELSE IF fault = "copy"
    THEN Outcome(<<"requireAuth:ok", "print", "request", "create", "body:close">>,
                 <<Lit("failed to write file: "), Lit("copy error")>>, <<downloading>>, api,
                 file, WithFile(fs, out, "file", "download"))
    ELSE Outcome(<<"requireAuth:ok", "print", "request", "create", "print", "body:close">>,
                 NoErr,
                 <<downloading, <<Lit("Downloaded "), Lit(" bytes to "), Chars(out)>> >>,
                 api, file, WithFile(fs, out, "file", "download"))

\* files update: localFile is the -f flag, stdin the standard input ("tty" when
\* it is a terminal)
filesUpdateRunE(v, file, fs, sandbox, path, localFile, appendMode, stdin, srv) ==
    LET readable == localFile \in DOMAIN fs /\ fs[localFile].kind # "dir"
        content == IF localFile # NoStr THEN ReadFile(fs, localFile) ELSE stdin.text
        mode == IF appendMode THEN "append" ELSE "overwrite"
        api == UpdateFile(Client(v), sandbox, path, content, "file", mode, srv)
    IN
    IF IsErr(requireAuth(v)) THEN AuthFailed(v, file, fs)
    ELSE IF localFile # NoStr /\ ~readable
    THEN Outcome(<<"requireAuth:ok", "read">>,
                 <<Lit("failed to read local file: "), Lit("read error")>>, <<>>, NoApi,
                 file, fs)
    ELSE IF localFile = NoStr /\ stdin.tty
    THEN Outcome(<<"requireAuth:ok">>,
                 <<Lit("no input provided. Use --file or pipe content via stdin")>>, <<>>,
                 NoApi, file, fs)
    ELSE IF IsErr(api.err)
    THEN Outcome(<<"requireAuth:ok", "read", "request">>, api.err, <<>>, api, file, fs)
    ELSE Outcome(<<"requireAuth:ok", "read", "request", "print">>, NoErr,
                 << <<Lit("Updated "), Txt(path), Lit(" in sandbox '"), Txt(sandbox),
                      Lit("'")>> >>, api, file, fs)

\* filepath.Ext: the suffix of the last path element from its last dot on
Ext(p, host) ==
    LET b == Base(p, host)
        dots == {i \in 1..Len(b) : b[i] = "."}
    IN
    IF dots = {} THEN <<>>
    ELSE SubSeq(b, CHOOSE i \in dots : \A j \in dots : j <= i, Len(b))

Contains(s, c) == \E i \in 1..Len(s) : s[i] = c

\* runFile: readFails says that os.ReadFile fails
runFile(client, file, fs, sandbox, filePath, forceLang, host, readFails, srv) ==
    LET code == ReadFile(fs, filePath)
        ext == ToLower(Ext(filePath, host))
        lang == IF forceLang # "" THEN forceLang
                ELSE IF ext = <<".", "p", "y">> THEN "python" ELSE ""
        api == RunPython(client, sandbox, code, "", srv)
    IN
    IF readFails
    THEN Outcome(<<"requireAuth:ok", "stat", "read">>,
                 <<Lit("failed to read file "), Chars(filePath), Lit(": read error")>>,
                 <<>>, NoApi, file, fs)
    ELSE IF lang = ""
    THEN Outcome(<<"requireAuth:ok", "stat", "read">>,
                 <<Lit("only Python .py files are supported. File extension '"), Chars(ext),
                   Lit("' is not supported")>>, <<>>, NoApi, file, fs)
    ELSE IF lang # "python"
    THEN Outcome(<<"requireAuth:ok", "stat", "read">>,
                 <<Lit("only Python files are supported. Provide a .py file")>>, <<>>,
                 NoApi, file, fs)
    ELSE IF IsErr(api.err)
    THEN Outcome(<<"requireAuth:ok", "stat", "read", "print", "request">>, api.err,
                 << <<Lit("Running "), Chars(filePath), Lit(" as Python in sandbox '"),
                      Txt(sandbox), Lit("'...")>> >>, api, file, fs)
    ELSE Outcome(<<"requireAuth:ok", "stat", "read", "print", "request", "print">>, NoErr,
                 << <<Lit("Running "), Chars(filePath), Lit(" as Python in sandbox '"),
                      Txt(sandbox), Lit("'...")>>, <<Txt(api.out)>> >>, api, file, fs)

runRunE(v, file, fs, sandbox, input, host, readFails, srv) ==
    LET api == RunPython(Client(v), sandbox, input, "", srv) IN
    IF IsErr(requireAuth(v)) THEN AuthFailed(v, file, fs)
    ELSE IF input \in DOMAIN fs
    THEN IF fs[input].kind = "dir"
         THEN Outcome(<<"requireAuth:ok", "stat">>,
                      <<Lit("file not found or is a directory: "), Chars(input)>>, <<>>,
                      NoApi, file, fs)
         ELSE runFile(Client(v), file, fs, sandbox, input, "", host, readFails, srv)
    ELSE IF HasSuffix(ToLower(input), <<".", "p", "y">>) \/ Contains(input, Separator(host))
    THEN Outcome(<<"requireAuth:ok", "stat">>,
                 <<Lit("file not found or is a directory: "), Chars(input)>>, <<>>, NoApi,
                 file, fs)
    ELSE IF IsErr(api.err)
    THEN Outcome(<<"requireAuth:ok", "stat", "request">>, api.err, <<>>, api, file, fs)
    ELSE Outcome(<<"requireAuth:ok", "stat", "request", "print">>, NoErr,
                 << <<Txt(api.out)>> >>, api, file, fs)

----------------------------------------------------------------------------
(* the inputs of the invocations *)

DirPath == <<"d">>

InnerPath == <<"d", "/", "a">>

ZipPath == <<"p", ".", "Z", "I", "P">>

TgzPath == <<"q", ".", "t", "g", "z">>

TarGzPath == <<"r", ".", "t", "a", "r", ".", "g", "z">>

TxtPath == <<"n", ".", "t", "x", "t">>

PyPath == <<"s", ".", "P", "y">>

MissingPath == <<"m">>

MissingPy == <<"m", ".", "p", "y">>

InitFS ==
    [p \in {DirPath, InnerPath, ZipPath, TgzPath, TarGzPath, TxtPath, PyPath} |->
        [kind |-> IF p = DirPath THEN "dir" ELSE "file", data |-> "orig"]]

Hosts == {"linux", "windows"}

NoIn == [none |-> TRUE]

NoOrc == [none |-> TRUE]

LoginInputs ==
    {[args |-> <<>>, token |-> NoStr, stdin |-> pw] :
        pw \in {<<>>, <<"\n">>, <<"a", "\n">>, <<" ", "a">>}}
    \cup {[args |-> << <<" ">> >>, token |-> <<"a">>, stdin |-> <<>>],
          [args |-> << <<"a">> >>, token |-> NoStr, stdin |-> <<>>],
          [args |-> << <<" ", "a", "\n">> >>, token |-> <<"b">>, stdin |-> <<>>]}

SaveOracles ==
    {[save1 |-> f1, save2 |-> f2] : f1 \in SaveFaults, f2 \in SaveFaults}

\* logout writes the config file once
LogoutOracles == {o \in SaveOracles : o.save2 = "none"}

CreateInputs ==
    {[name |-> "foo", port |-> "", envPairs |-> e] :
        e \in {<<>>, << <<"K", "=", "V">> >>, << <<"K">> >>, << <<" ", "=", "V">> >>,
               << <<" ", "K", " ", "=", " ", "V", "=">> >>,
               << <<"K", "=", "V">>, <<"K", "=">> >>,
               << <<"K", "=", "V">>, <<"J">> >>}}
    \cup {[name |-> "", port |-> "80", envPairs |-> <<>>]}

DeleteInputs ==
    {[name |-> "s1", force |-> TRUE, stdin |-> <<>>]}
    \cup {[name |-> "s1", force |-> FALSE, stdin |-> a] :
            a \in {<<>>, <<"\n">>, <<"y">>, <<"y", "\n">>, <<"Y", "E", "S", "\n">>,
                   <<" ", "y", "e", "s", "\r", "\n">>, <<"n", "\n">>, <<"y", "e", "\n">>,
                   <<"n", "\n", "y", "\n">>, <<"y", "\n", "n", "\n">>}}

NameInputs == [name : Names]

Dispositions == {<<>>, <<"a", ";">> \o FilenameTok \o <<"o", "\"">>,
                 FilenameTok \o <<"o">>, FilenameTok \o <<"\"">>}

DownloadReplies == CommonReplies \cup {[BaseReply EXCEPT !.cd = cd] : cd \in Dispositions}

DownloadInputs == [sandbox : Names, output : {NoStr, <<"o">>}]

UpdateInputs ==
    {[sandbox |-> "s1", path |-> "/app/x", localFile |-> f, appendMode |-> m,
      stdin |-> [tty |-> TRUE, text |-> <<>>]] :
        f \in {NoStr, TxtPath, MissingPath}, m \in BOOLEAN}
    \cup {[sandbox |-> "s1", path |-> "/app/x", localFile |-> NoStr, appendMode |-> m,
           stdin |-> [tty |-> FALSE, text |-> <<"c">>]] : m \in BOOLEAN}

UploadInputs ==
    {[sandbox |-> "s1", inputPath |-> p, targetPath |-> "/app", format |-> "",
      host |-> "linux"] :
        p \in {DirPath, InnerPath, ZipPath, TgzPath, TarGzPath, TxtPath, MissingPath}}
    \cup {[sandbox |-> "s1", inputPath |-> DirPath, targetPath |-> "/", format |-> "",
           host |-> "windows"],
          [sandbox |-> "s1", inputPath |-> InnerPath, targetPath |-> "/", format |-> "",
           host |-> "windows"],
          [sandbox |-> "s1", inputPath |-> ZipPath, targetPath |-> "/", format |-> "tar.gz",
           host |-> "linux"],
          [sandbox |-> "s1", inputPath |-> TxtPath, targetPath |-> "/", format |-> "tar.gz",
           host |-> "linux"],
          [sandbox |-> "s1", inputPath |-> TempOrder[1], targetPath |-> "/app",
           format |-> "", host |-> "linux"]}

\* what the file system does to files upload: the name CreateTemp picks and the
\* step that fails; with every temp name taken, CreateTemp fails
UploadOracles(fs) ==
    IF FreeTemps(fs) = {}
    THEN {[tmpName |-> NoStr, fault |-> "temp", failAt |-> 0]}
    ELSE LET k == CHOOSE j \in 1..Len(TempOrder) :
                      /\ TempOrder[j] \in FreeTemps(fs)
                      /\ \A m \in 1..(j - 1) : TempOrder[m] \notin FreeTemps(fs)
         IN {[tmpName |-> TempOrder[k], fault |-> f, failAt |-> 0] :
                f \in {"none", "temp", "stat", "open", "upload"}}
            \cup {[tmpName |-> TempOrder[k], fault |-> "walk", failAt |-> n] : n \in {1, 3}}

ExecInputs == {[sandbox |-> "auto", command |-> "echo hello"]}

RunInputs ==
    {[sandbox |-> "auto", input |-> p, host |-> "linux"] :
        p \in {PyPath, TxtPath, DirPath, MissingPy, <<"1">>, <<"1", "/", "2">>,
               <<"1", "\\", "2">>}}
    \cup {[sandbox |-> "auto", input |-> <<"1", "\\", "2">>, host |-> "windows"]}

\* the file-system answers initConfig can get for the config file as it is
InitDisks(file) ==
    IF file.state = "absent"
    THEN Disks
    ELSE {[mkdir |-> FALSE, typedNotFound |-> FALSE, init |-> "none"]}

----------------------------------------------------------------------------
(* one invocation: root.Execute() runs initConfig, then the command's RunE *)

Idle == [stage |-> "idle"]

\* PersistentPreRunE failed: RunE does not run
InitFailed(i, fs) == Outcome(<<>>, i.err, <<>>, NoApi, i.file, fs)

\* the state after Execute returned: i is initConfig's result, o the RunE's outcome
Finish(cmd, i, o, in, srv) ==
    /\ last' = [stage |-> "done", cmd |-> cmd, ran |-> ~IsErr(i.err),
                envTok |-> i.v.env.auth_token, tok |-> GetAuthToken(i.v),
                events |-> o.events, reqs |-> o.api.reqs, srv |-> srv,
                err |-> o.err, out |-> o.out,
                api |-> [err |-> o.api.err, out |-> o.api.out, data |-> o.api.data],
                built |-> o.built, in |-> in, cfg0 |-> i.file]
    /\ cfgFile' = o.file
    /\ fsys' = o.fs
    /\ sinceLogout' = IF cmd = "logout" /\ ~IsErr(o.err) THEN TRUE
                      ELSE IF cmd = "login" /\ ~IsErr(o.err) THEN FALSE
                      ELSE sinceLogout
    /\ UNCHANGED zipVars

\* initConfig of an invocation: the environment gives the process its variables
\* and the config directory's answers
Inits == {initConfig(cfgFile, env, d) : env \in Envs, d \in InitDisks(cfgFile)}

\* The invocations of a command that the state allows, run[i, in, orc, srv]
\* being its RunE.  The user's input (in) and the file system's answers (orc)
\* are drawn when RunE gets past requireAuth, the remote side's answer (srv)
\* when RunE sends a request.
Runs(Inputs, Oracles, Replies, run) ==
    UNION {
        LET in0 == CHOOSE x \in Inputs : TRUE
            orc0 == CHOOSE x \in Oracles : TRUE
            reads == /\ ~IsErr(i.err)
                     /\ run[i, in0, orc0, NoReply].events # <<"requireAuth:fail">>
        IN
        UNION {
            LET sends == reads /\ run[i, in, orc, NoReply].api.reqs # <<>> IN
            {[i |-> i, in |-> in, srv |-> srv,
              o |-> IF IsErr(i.err) THEN InitFailed(i, fsys) ELSE run[i, in, orc, srv]] :
                srv \in (IF sends THEN Replies ELSE {NoReply})} :
            in \in (IF reads THEN Inputs ELSE {in0}),
            orc \in (IF reads THEN Oracles ELSE {orc0})} :
        i \in Inits}

Login ==
    /\ last.stage = "idle"
    /\ \E r \in Runs(LoginInputs, SaveOracles, AuthReplies,
            [i \in Inits, in \in LoginInputs, orc \in SaveOracles,
             srv \in AuthReplies \cup {NoReply} |->
                loginRunE(i.v, i.file, fsys, in.args, in.token, in.stdin, srv, orc)]) :
        Finish("login", r.i, r.o, r.in, r.srv)

Logout ==
    /\ last.stage = "idle"
    /\ \E r \in Runs({NoIn}, LogoutOracles, {NoReply},
            [i \in Inits, in \in {NoIn}, orc \in LogoutOracles,
             srv \in {NoReply} |->
                logoutRunE(i.v, i.file, fsys, orc)]) :
        Finish("logout", r.i, r.o, r.in, r.srv)

SandboxList ==
    /\ last.stage = "idle"
    /\ \E r \in Runs({NoIn}, {NoOrc}, ListReplies,
            [i \in Inits, in \in {NoIn}, orc \in {NoOrc},
             srv \in ListReplies \cup {NoReply} |->
                sandboxListRunE(i.v, i.file, fsys, srv)]) :
        Finish("sandboxes list", r.i, r.o, r.in, r.srv)

SandboxCreate ==
    /\ last.stage = "idle"
    /\ \E r \in Runs(CreateInputs, {NoOrc}, CreateReplies,
            [i \in Inits, in \in CreateInputs, orc \in {NoOrc},
             srv \in CreateReplies \cup {NoReply} |->
                sandboxCreateRunE(i.v, i.file, fsys, in.name, in.port, in.envPairs, srv)]) :
        Finish("sandboxes create", r.i, r.o, r.in, r.srv)

SandboxDelete ==
    /\ last.stage = "idle"
    /\ \E r \in Runs(DeleteInputs, {NoOrc}, CommonReplies,
            [i \in Inits, in \in DeleteInputs, orc \in {NoOrc},
             srv \in CommonReplies \cup {NoReply} |->
                sandboxDeleteRunE(i.v, i.file, fsys, in.name, in.force, in.stdin, srv)]) :
        Finish("sandboxes delete", r.i, r.o, r.in, r.srv)

SandboxStart ==
    /\ last.stage = "idle"
    /\ \E r \in Runs(NameInputs, {NoOrc}, CommonReplies,
            [i \in Inits, in \in NameInputs, orc \in {NoOrc},
             srv \in CommonReplies \cup {NoReply} |->
                sandboxStartRunE(i.v, i.file, fsys, in.name, srv)]) :
        Finish("sandboxes start", r.i, r.o, r.in, r.srv)

SandboxStop ==
    /\ last.stage = "idle"
    /\ \E r \in Runs(NameInputs, {NoOrc}, CommonReplies,
            [i \in Inits, in \in NameInputs, orc \in {NoOrc},
             srv \in CommonReplies \cup {NoReply} |->
                sandboxStopRunE(i.v, i.file, fsys, in.name, srv)]) :
        Finish("sandboxes stop", r.i, r.o, r.in, r.srv)

FilesList ==
    /\ last.stage = "idle"
    /\ \E r \in Runs(NameInputs, {NoOrc}, ListReplies,
            [i \in Inits, in \in NameInputs, orc \in {NoOrc},
             srv \in ListReplies \cup {NoReply} |->
                filesListRunE(i.v, i.file, fsys, in.name, srv)]) :
        Finish("files list", r.i, r.o, r.in, r.srv)

FilesDownload ==
    /\ last.stage = "idle"
    /\ \E r \in Runs(DownloadInputs, {"none", "create", "copy"}, DownloadReplies,
            [i \in Inits, in \in DownloadInputs, orc \in {"none", "create", "copy"},
             srv \in DownloadReplies \cup {NoReply} |->
                filesDownloadRunE(i.v, i.file, fsys, in.sandbox, in.output, orc, srv)]) :
        Finish("files download", r.i, r.o, r.in, r.srv)

FilesUpdate ==
    /\ last.stage = "idle"
    /\ \E r \in Runs(UpdateInputs, {NoOrc}, CommonReplies,
            [i \in Inits, in \in UpdateInputs, orc \in {NoOrc},
             srv \in CommonReplies \cup {NoReply} |->
                filesUpdateRunE(i.v, i.file, fsys, in.sandbox, in.path, in.localFile, in.appendMode, in.stdin, srv)]) :
        Finish("files update", r.i, r.o, r.in, r.srv)

FilesUpload ==
    /\ last.stage = "idle"
    /\ \E r \in Runs(UploadInputs, UploadOracles(fsys), CommonReplies,
            [i \in Inits, in \in UploadInputs, orc \in UploadOracles(fsys),
             srv \in CommonReplies \cup {NoReply} |->
                filesUploadRunE(i.v, i.file, fsys, in.sandbox, in.inputPath,
                                in.targetPath, in.format, in.host, orc.tmpName,
                                orc.fault, orc.failAt, srv)]) :
        Finish("files upload", r.i, r.o, r.in, r.srv)

ExecCmd ==
    /\ last.stage = "idle"
    /\ \E r \in Runs(ExecInputs, {NoOrc}, ExecReplies,
            [i \in Inits, in \in ExecInputs, orc \in {NoOrc},
             srv \in ExecReplies \cup {NoReply} |->
                execRunE(i.v, i.file, fsys, in.sandbox, in.command, srv)]) :
        Finish("exec", r.i, r.o, r.in, r.srv)

RunCmd ==
    /\ last.stage = "idle"
    /\ \E r \in Runs(RunInputs, BOOLEAN, ExecReplies,
            [i \in Inits, in \in RunInputs, orc \in BOOLEAN,
             srv \in ExecReplies \cup {NoReply} |->
                runRunE(i.v, i.file, fsys, in.sandbox, in.input, in.host, orc, srv)]) :
        Finish("run", r.i, r.o, r.in, r.srv)

configShowRunE(v, file, fs) ==
    Outcome(<<"print">>, NoErr,
            << <<Lit("API Endpoint: "), Txt(GetAPIEndpoint)>>,
               <<Lit("User Email: "), Txt(GetUserEmail(v))>>,
               <<Lit("Authenticated: "), Txt(IF isAuthenticated(v) THEN "true" ELSE "false")>> >>,
            NoApi, file, fs)

ConfigShow ==
    /\ last.stage = "idle"
    /\ \E r \in Runs({NoIn}, {NoOrc}, {NoReply},
            [i \in Inits, in \in {NoIn}, orc \in {NoOrc},
             srv \in {NoReply} |->
                configShowRunE(i.v, i.file, fsys)]) :
        Finish("config show", r.i, r.o, r.in, r.srv)

\* main returns: the process is gone, the next invocation can start
Exit ==
    /\ last.stage = "done"
    /\ last' = Idle
    /\ UNCHANGED <<cfgFile, fsys, sinceLogout, zipVars>>

NoZip == [done |-> FALSE, err |-> NoErr, name |-> NoStr, entries |-> <<>>]

Init ==
    /\ cfgFile = NoFile
    /\ fsys = InitFS
    /\ last = Idle
    /\ sinceLogout = FALSE
    /\ zipIn = [tree |-> <<>>, host |-> "linux", failAt |-> 0]
    /\ zipOut = NoZip

Next ==
    \/ Login
    \/ Logout
    \/ SandboxList
    \/ SandboxCreate
    \/ SandboxDelete
    \/ SandboxStart
    \/ SandboxStop
    \/ FilesList
    \/ FilesDownload
    \/ FilesUpdate
    \/ FilesUpload
    \/ ExecCmd
    \/ RunCmd
    \/ ConfigShow
    \/ Exit

Spec == Init /\ [][Next]_vars

----------------------------------------------------------------------------
(* the archive builder on its own: createZipFromDir applied to every tree *)
(* of a bounded depth, on both hosts                                      *)

MaxDepth == 2

\* the names a directory entry can have on the host
HostNames(host) == IF host = "windows" THEN {"a", "b"} ELSE {"a", "\\"}

\* the directory contents with at most depth levels below the root
RECURSIVE TreesAt(_, _)
TreesAt(depth, names) ==
    IF depth = 0 THEN {<<>>}
    ELSE UNION {[S -> {FileNode} \cup {DirNode(t) : t \in TreesAt(depth - 1, names)}] :
                  S \in SUBSET names}

\* failAt: the call of the walk function on which the file system fails, 0 for none
ZipInputs ==
    UNION {[tree : TreesAt(MaxDepth, HostNames(h)), host : {h}, failAt : 0..2] : h \in Hosts}

InitZip ==
    /\ cfgFile = NoFile
    /\ fsys = InitFS
    /\ last = Idle
    /\ sinceLogout = FALSE
    /\ zipIn \in ZipInputs
    /\ zipOut = NoZip

ZipBuild ==
    /\ ~zipOut.done
    /\ LET r == createZipFromDir(DirPath, zipIn.tree, zipIn.host, fsys, TempOrder[1], "none",
                                 zipIn.failAt)
       IN zipOut' = [done |-> TRUE, err |-> r.err, name |-> r.name, entries |-> r.entries]
    /\ UNCHANGED <<cliVars, zipIn>>

NextZip == ZipBuild

SpecZip == InitZip /\ [][NextZip]_vars

----------------------------------------------------------------------------
(* the properties *)

Done == last.stage = "done"

\* the commands that call requireAuth
AuthCmds ==
    {"sandboxes list", "sandboxes create", "sandboxes delete", "sandboxes start",
     "sandboxes stop", "files list", "files download", "files update", "files upload",
     "exec", "run"}

NotAuthenticated == <<Lit("not authenticated. Please run 'everywhere login' first")>>

\* the run got a response: a request went out and the transport did not fail
Answered == Done /\ last.reqs # <<>> /\ ~last.srv.neterr

\* the statuses the specification counts as success for a command's operation
SuccessSet(cmd) == IF cmd = "sandboxes create" THEN {200, 201} ELSE {200}

HasTxt(e, t) == \E i \in 1..Len(e) : e[i] = Txt(t)

HasNum(e, n) == \E i \in 1..Len(e) : e[i] = Num(n)

PositionsOf(events, ev) == {i \in 1..Len(events) : events[i] = ev}

\* C1: a command other than login sends a request only after requireAuth passed:
\* with an empty configured token it fails with the authentication error and
\* sends nothing, and with any non-empty token requireAuth passes, whatever the
\* server answers (the token goes out with the request)
C1_RequestOnlyAfterRequireAuth ==
    Done /\ last.cmd \in AuthCmds =>
        /\ ~last.ran => last.reqs = <<>>
        /\ last.ran /\ last.tok = NoStr =>
              /\ last.err = NotAuthenticated
              /\ last.reqs = <<>>
              /\ last.events = <<"requireAuth:fail">>
        /\ last.ran /\ last.tok # NoStr =>
              /\ last.events[1] = "requireAuth:ok"
              /\ last.err # NotAuthenticated
        /\ last.reqs # <<>> =>
              /\ \A i \in PositionsOf(last.events, "request") : i > 1
              /\ last.events[1] = "requireAuth:ok"
              /\ last.reqs[1].auth = last.tok
              /\ last.tok # NoStr

C1_Witness ==
    /\ Done
    /\ last.cmd = "files upload"
    /\ last.ran
    /\ last.tok = NoStr
    /\ last.err = NotAuthenticated
    /\ last.reqs = <<>>

\* C2: for RunCommand (exec) and RunPython (run), a decoded 200 response with a
\* non-empty data.error gives an error carrying exactly that string and an empty
\* output; data.output is returned only when data.error is empty
C2_ExecutionErrorHidesOutput ==
    Answered /\ last.cmd \in {"exec", "run"} /\ last.srv.status = 200 /\ last.srv.valid =>
        /\ last.srv.error # "" =>
              /\ IsErr(last.api.err)
              /\ HasTxt(last.api.err, last.srv.error)
              /\ Len(last.api.err) = 2
              /\ last.api.out = ""
        /\ last.srv.error = "" =>
              /\ last.api.err = NoErr
              /\ last.api.out = last.srv.output

C2_Witness ==
    /\ Answered
    /\ last.cmd = "exec"
    /\ last.srv.status = 200
    /\ last.srv.error = "boom"
    /\ last.srv.output = "hello"
    /\ last.api.out = ""
    /\ HasTxt(last.api.err, "boom")

\* C3: in files upload, once the archive builder has returned a temporary
\* archive, that file is gone when the command returns, whether UploadArchive
\* succeeded or failed (open error, transport error, non-200 status)
C3_TempArchiveRemoved ==
    Done /\ last.cmd = "files upload" /\ last.built # NoStr =>
        /\ last.built \notin DOMAIN fsys
        /\ last.events[Len(last.events)] = "remove"

C3_Witness ==
    /\ Answered
    /\ last.cmd = "files upload"
    /\ last.built # NoStr
    /\ last.srv.status = 500
    /\ IsErr(last.err)
    /\ last.built \notin DOMAIN fsys

C5_SuccessStatuses ==
    Answered =>
        /\ last.srv.status \notin SuccessSet(last.cmd) =>
              /\ IsErr(last.api.err)
              /\ last.api.out = ""
              /\ last.api.data \in {NoData, [Filename |-> NoStr, Body |-> "closed"]}
        /\ last.srv.status \in SuccessSet(last.cmd) /\ last.srv.valid /\ last.srv.error = "" =>
              last.api.err = NoErr

C5_Witness ==
    /\ Answered
    /\ last.cmd = "sandboxes create"
    /\ last.srv.status = 201
    /\ last.api.err = NoErr
    /\ last.api.data # NoData

AuthenticationError(e) == IsErr(e) /\ e[1] = Lit("authentication failed: ")

\* C6 as stated: a 401 from GetAuthStatus is told apart from its other errors,
\* and any non-200 status from any other endpoint is an error with the body
C6_AsStated ==
    /\ Answered /\ last.cmd = "login" /\ last.srv.status # 200 =>
          (AuthenticationError(last.api.err) <=> last.srv.status = 401)
    /\ Answered /\ last.cmd # "login" /\ last.srv.status # 200 =>
          /\ IsErr(last.api.err)
          /\ HasTxt(last.api.err, last.srv.body)

\* C6: GetAuthStatus reports a 401 as an authentication error, which no other
\* status gets; any other endpoint reports a status outside its success set
\* (201 is a success of CreateSandbox) as an error with the literal body, never
\* as an authentication error
C6_AuthErrorOn401Only ==
    /\ Answered /\ last.cmd = "login" /\ last.srv.status # 200 =>
          /\ AuthenticationError(last.api.err) <=> last.srv.status = 401
          /\ HasTxt(last.api.err, last.srv.body)
    /\ Answered /\ last.cmd # "login" /\ last.srv.status \notin SuccessSet(last.cmd) =>
          /\ IsErr(last.api.err)
          /\ HasTxt(last.api.err, last.srv.body)
          /\ ~AuthenticationError(last.api.err)
    /\ Answered /\ last.cmd = "sandboxes create" /\ last.srv.status = 201 /\ last.srv.valid =>
          last.api.err = NoErr

C6_Witness ==
    /\ Answered
    /\ last.cmd = "login"
    /\ last.srv.status = 401
    /\ last.srv.body # ""
    /\ last.api.err = <<Lit("authentication failed: "), Txt(last.srv.body)>>

\* the response to login's auth-status request is a decoded 200
LoginAnswered ==
    Answered /\ last.cmd = "login" /\ last.srv.status = 200 /\ last.srv.valid

\* the credential record holds the token login sent and the email of the answer,
\* and login printed a line with that email
LoginSaved ==
    /\ cfgFile = OkFile(last.reqs[1].auth, last.srv.email)
    /\ last.err = NoErr
    /\ \E i \in 1..Len(last.out) : HasTxt(last.out[i], last.srv.email)

LoginRefused ==
    /\ IsErr(last.err)
    /\ cfgFile = last.cfg0
    /\ PositionsOf(last.events, "save:ok") = {}
    /\ PositionsOf(last.events, "save:fail") = {}

RefusedByRequireAuth ==
    /\ last.err = NotAuthenticated
    /\ last.reqs = <<>>

\* the credential record exists and holds no token
PersistedEmpty(f) == f.state = "ok" /\ f.auth_token = NoStr

Answer(stdin) == ToLower(TrimSpace(ReadString(stdin).text))

\* C9: sandboxes delete sends its DELETE request only with the force flag or
\* with an answer that, trimmed and lower-cased, is y or yes; any other answer
\* sends nothing; with the force flag no prompt is read
C9_DeleteNeedsConfirmation ==
    Done /\ last.cmd = "sandboxes delete" =>
        /\ last.reqs # <<>> =>
              /\ last.in.force \/ Answer(last.in.stdin) \in {<<"y">>, <<"y", "e", "s">>}
              /\ last.reqs[1].method = "DELETE"
              /\ Len(last.reqs) = 1
        /\ ~last.in.force /\ Answer(last.in.stdin) \notin {<<"y">>, <<"y", "e", "s">>} =>
              last.reqs = <<>>
        /\ last.in.force => PositionsOf(last.events, "prompt") = {}
        /\ last.in.force /\ last.ran /\ last.tok # NoStr => last.reqs # <<>>

C9_Witness ==
    /\ Done
    /\ last.cmd = "sandboxes delete"
    /\ last.tok # NoStr
    /\ ~last.in.force
    /\ last.in.stdin = <<"y", "e", "\n">>
    /\ PositionsOf(last.events, "prompt") # {}
    /\ last.reqs = <<>>
    /\ last.err = NoErr

\* the non-root entries of a tree: the names on the way down, and the kind
RECURSIVE TreeEntries(_)
TreeEntries(t) ==
    UNION {{[comps |-> <<n>>, dir |-> t[n].dir]}
              \cup (IF t[n].dir
                    THEN {[comps |-> <<n>> \o e.comps, dir |-> e.dir] :
                            e \in TreeEntries(t[n].kids)}
                    ELSE {}) : n \in DOMAIN t}

RECURSIVE JoinSlash(_)
JoinSlash(comps) ==
    IF Len(comps) = 1 THEN <<comps[1]>>
    ELSE <<comps[1], "/">> \o JoinSlash(Tail(comps))

\* the archive name of a tree entry: its relative path with "/" between the
\* names, and a trailing "/" for a directory
SlashName(e) == JoinSlash(e.comps) \o (IF e.dir THEN <<"/">> ELSE <<>>)

\* listing an archive: the relative paths of its entries
Listed(entries) ==
    {IF HasSuffix(entries[i].Name, <<"/">>)
     THEN SubSeq(entries[i].Name, 1, Len(entries[i].Name) - 1)
     ELSE entries[i].Name : i \in 1..Len(entries)}

\* walking the directory: the relative paths of all entries but the root
Walked(in) ==
    LET visits == Walk(DirPath, in.tree, in.host) IN
    {ReplaceAll(Rel(DirPath, visits[i].path), Separator(in.host), "/") : i \in 2..Len(visits)}

\* C10: the archive createZipFromDir builds has exactly one entry per non-root
\* entry of the tree, named by the relative path with "/" as separator (and a
\* trailing "/" for a directory); no entry stands for the root; listing the
\* archive gives the relative paths that walking the directory gives
C10_ArchiveMirrorsTree ==
    zipOut.done /\ zipOut.err = NoErr =>
        LET es == zipOut.entries
            want == TreeEntries(zipIn.tree)
        IN
        /\ {es[i].Name : i \in 1..Len(es)} = {SlashName(e) : e \in want}
        /\ Len(es) = Cardinality(want)
        /\ \A e \in want : ~e.dir =>
              Cardinality({i \in 1..Len(es) : es[i].Name = JoinSlash(e.comps)}) = 1
        /\ \A i \in 1..Len(es) : es[i].Name \notin {<<>>, <<".">>, <<"/">>, <<".", "/">>}
        /\ Listed(es) = Walked(zipIn)
        /\ zipOut.name # NoStr

C10_Witness ==
    /\ zipOut.done
    /\ zipOut.err = NoErr
    /\ zipIn.host = "windows"
    /\ Len(zipOut.entries) = 4
    /\ \E i \in 1..Len(zipOut.entries) : zipOut.entries[i].Name = <<"b", "/", "a">>

\* files upload sent its request
Uploaded == Done /\ last.cmd = "files upload" /\ last.reqs # <<>>

\* the input of files upload is an existing file whose name does not end, in
\* any letter case, in .zip, .tar.gz or .tgz
PlainFileInput ==
    /\ last.in.inputPath \in DOMAIN InitFS
    /\ InitFS[last.in.inputPath].kind = "file"
    /\ \A suffix \in {<<".", "z", "i", "p">>, <<".", "t", "g", "z">>,
                     <<".", "t", "a", "r", ".", "g", "z">>} :
          ~HasSuffix(ToLower(last.in.inputPath), suffix)

\* the part of a path after its last separator
LastElement(p) ==
    LET seps == {i \in 1..Len(p) : p[i] \in {"/", "\\"}} IN
    SubSeq(p, (IF seps = {} THEN 0 ELSE CHOOSE i \in seps : \A j \in seps : j <= i) + 1,
           Len(p))

\* C11: for a single-file input that is not a recognized archive, the archive
\* built for upload has exactly one entry, named by the file's base name
C11_SingleFileArchive ==
    Uploaded /\ PlainFileInput =>
        LET content == last.reqs[1].body.archive.content IN
        /\ last.built # NoStr
        /\ Len(content) = 1
        /\ content[1].Name = LastElement(last.in.inputPath)

C11_Witness ==
    /\ Uploaded
    /\ last.in.inputPath = InnerPath
    /\ last.built # NoStr
    /\ last.reqs[1].body.archive.content = <<[Name |-> <<"a">>, Method |-> "Deflate"]>>

\* the path of the archive files upload hands to UploadArchive
FinalArchive == IF last.built # NoStr THEN last.built ELSE last.in.inputPath

EndsInTarGz(p) ==
    \/ HasSuffix(ToLower(p), <<".", "t", "a", "r", ".", "g", "z">>)
    \/ HasSuffix(ToLower(p), <<".", "t", "g", "z">>)

\* C12 as stated: the format sent is tar.gz when the final archive path ends in
\* .tar.gz or .tgz and zip otherwise, so a built archive always goes out as zip
C12_AsStated ==
    Uploaded =>
        /\ last.reqs[1].body.format = (IF EndsInTarGz(FinalArchive) THEN "tar.gz" ELSE "zip")
        /\ last.built # NoStr => last.reqs[1].body.format = "zip"

\* C12: without the --format flag the format sent is tar.gz when the final
\* archive path ends (in any letter case) in .tar.gz or .tgz and zip otherwise,
\* so a built archive goes out as zip and tar.gz is sent only for a .tar.gz or
\* .tgz file of the user; a --format value is sent as given
C12_FormatDetection ==
    Uploaded =>
        /\ last.in.format = "" =>
              /\ last.reqs[1].body.format
                    = (IF EndsInTarGz(FinalArchive) THEN "tar.gz" ELSE "zip")
              /\ last.built # NoStr => last.reqs[1].body.format = "zip"
              /\ last.reqs[1].body.format = "tar.gz" =>
                    /\ last.built = NoStr
                    /\ EndsInTarGz(last.in.inputPath)
                    /\ InitFS[last.in.inputPath].kind = "file"
        /\ last.in.format # "" => last.reqs[1].body.format = last.in.format

C12_Witness ==
    /\ Uploaded
    /\ last.in.format = ""
    /\ last.in.inputPath = TgzPath
    /\ last.built = NoStr
    /\ last.reqs[1].body.format = "tar.gz"

\* the commands that call no API Client operation
LocalCmds == {"logout", "config show"}

\* the run stopped on a local check: initConfig, requireAuth, an argument, the
\* confirmation or the local file system refused
LocalStop ==
    \/ ~last.ran
    \/ IsErr(last.err) /\ last.reqs = <<>>
    \/ last.cmd = "sandboxes delete" /\ ~last.in.force
          /\ Answer(last.in.stdin) \notin {<<"y">>, <<"y", "e", "s">>}

\* the request failed: no answer, or a status outside the success set
RequestFailed ==
    /\ Done
    /\ last.reqs # <<>>
    /\ last.srv.neterr \/ last.srv.status \notin SuccessSet(last.cmd)

\* C13 as stated: every invocation sends at most one request, and exactly one
\* when its local checks pass; a failed request is not sent again and its error
\* ends the command
C13_AsStated ==
    Done =>
        /\ Len(last.reqs) <= 1
        /\ ~LocalStop => Len(last.reqs) = 1
        /\ RequestFailed => IsErr(last.err)

\* C13: every invocation sends at most one request; login and the commands
\* behind requireAuth send exactly one when their local checks pass, logout and
\* config show send none; a failed request is not sent again and the command
\* ends with its error
C13_OneRequest ==
    Done =>
        /\ Len(last.reqs) <= 1
        /\ Cardinality(PositionsOf(last.events, "request")) = Len(last.reqs)
        /\ last.cmd \in LocalCmds => last.reqs = <<>>
        /\ last.cmd \notin LocalCmds /\ ~LocalStop => Len(last.reqs) = 1
        /\ RequestFailed =>
              /\ IsErr(last.api.err)
              /\ last.err \in {last.api.err,
                               <<Lit("token authentication failed: ")>> \o last.api.err}
              /\ \A i \in PositionsOf(last.events, "request"), j \in 1..Len(last.events) :
                    j > i => last.events[j] \in {"remove", "body:close"}

C13_Witness ==
    /\ RequestFailed
    /\ last.cmd = "files update"
    /\ last.srv.neterr
    /\ Len(last.reqs) = 1
    /\ last.err = <<Lit("transport error")>>

\* run got past requireAuth with an argument that is no existing path
RunOfMissingPath ==
    /\ Done
    /\ last.cmd = "run"
    /\ last.ran
    /\ last.tok # NoStr
    /\ last.in.input \notin DOMAIN fsys

\* C14: for run ARG with ARG no existing path, an ARG that ends in .py fails
\* without a request, and every other ARG is sent to RunPython as the code
C14_InlineCode ==
    RunOfMissingPath =>
        IF HasSuffix(ToLower(last.in.input), <<".", "p", "y">>)
        THEN IsErr(last.err) /\ last.reqs = <<>>
        ELSE /\ Len(last.reqs) = 1
             /\ last.reqs[1].body.code = last.in.input

\* the positions of "=" in a -e value
EqualsAt(kv) == {i \in 1..Len(kv) : kv[i] = "="}

FirstEquals(kv) == CHOOSE i \in EqualsAt(kv) : \A j \in EqualsAt(kv) : i <= j

\* KEY and VALUE of a -e value that contains "=": the text around its first "=",
\* without the surrounding white space
PairKey(kv) == TrimSpace(SubSeq(kv, 1, FirstEquals(kv) - 1))

PairValue(kv) == TrimSpace(SubSeq(kv, FirstEquals(kv) + 1, Len(kv)))

WellFormed(kv) == EqualsAt(kv) # {} /\ PairKey(kv) # NoStr

\* the map of the parsed pairs: each key with the value of the last pair that names it
PairsMap(pairs) ==
    [k \in {PairKey(pairs[j]) : j \in 1..Len(pairs)} |->
        LET js == {j \in 1..Len(pairs) : PairKey(pairs[j]) = k}
            n == CHOOSE j \in js : \A m \in js : m <= j
        IN PairValue(pairs[n])]

\* the create command ran and passed requireAuth
CreatePassedAuth ==
    Done /\ last.cmd = "sandboxes create" /\ last.ran /\ last.err # NotAuthenticated

\* C15: an authenticated `sandboxes create` sends a creation request if and only
\* if every -e value contains "=" and has a non-empty trimmed key; a malformed
\* pair fails the command with no request sent; the one request sent is a POST
\* whose name is the -n value (left out when -n is empty) and whose secrets is
\* exactly the map of the parsed pairs (left out when there are none).
C15_CreateRequest ==
    CreatePassedAuth =>
        LET pairs == last.in.envPairs
            all == \A j \in 1..Len(pairs) : WellFormed(pairs[j])
        IN
        /\ last.reqs # <<>> <=> all
        /\ ~all => IsErr(last.err) /\ last.reqs = <<>>
        /\ all =>
              /\ Len(last.reqs) = 1
              /\ last.reqs[1].method = "POST"
              /\ last.reqs[1].body.name = last.in.name
              /\ "name" \in last.reqs[1].body.keys <=> last.in.name # ""
              /\ last.reqs[1].body.secrets = PairsMap(pairs)
              /\ "secrets" \in last.reqs[1].body.keys <=> pairs # <<>>

C15_Witness ==
    /\ CreatePassedAuth
    /\ last.in.name = "foo"
    /\ last.in.envPairs = << <<" ", "K", " ", "=", " ", "V", "=">> >>
    /\ Len(last.reqs) = 1
    /\ last.reqs[1].body.secrets = [k \in {<<"K">>} |-> <<"V", "=">>]

C15_MalformedWitness ==
    /\ CreatePassedAuth
    /\ last.in.envPairs = << <<"K", "=", "V">>, <<"J">> >>
    /\ last.reqs = <<>>
    /\ IsErr(last.err)

\* the positions right after a `filename="` in a Content-Disposition header
TokenEnds(cd) ==
    {i \in 10..Len(cd) : SubSeq(cd, i - 9, i) = <<"f", "i", "l", "e", "n", "a", "m", "e", "=", "\"">>}

\* the closing quotes after the first `filename="`
ClosingQuotes(cd) ==
    LET s == CHOOSE i \in TokenEnds(cd) : \A j \in TokenEnds(cd) : i <= j
    IN {j \in (s + 1)..Len(cd) : cd[j] = "\""}

\* the text between the first `filename="` and the next quote
QuotedFilename(cd) ==
    LET s == CHOOSE i \in TokenEnds(cd) : \A j \in TokenEnds(cd) : i <= j
        e == CHOOSE i \in ClosingQuotes(cd) : \A j \in ClosingQuotes(cd) : i <= j
    IN SubSeq(cd, s + 1, e - 1)

CompleteToken(cd) == TokenEnds(cd) # {} /\ ClosingQuotes(cd) # {}

DownloadAnswered == Answered /\ last.cmd = "files download"

\* C16: on a 200 response DownloadZip returns as filename the text between the
\* first `filename="` of the Content-Disposition header and the next quote, and
\* "download.zip" when the header is absent or has no complete token; it returns
\* the response stream open, and the command closes it before it returns; on
\* any other status DownloadZip closes the stream itself and returns an error.
C16_DownloadFilename ==
    DownloadAnswered =>
        IF last.srv.status = 200
        THEN /\ last.api.err = NoErr
             /\ last.api.data.Body = "open"
             /\ last.api.data.Filename =
                    IF CompleteToken(last.srv.cd) THEN QuotedFilename(last.srv.cd)
                    ELSE <<"d", "o", "w", "n", "l", "o", "a", "d", ".", "z", "i", "p">>
             /\ PositionsOf(last.events, "body:close") # {}
        ELSE /\ IsErr(last.api.err)
             /\ last.api.data.Body = "closed"
             /\ PositionsOf(last.events, "body:close") = {}

C16_Witness ==
    /\ DownloadAnswered
    /\ last.srv.status = 200
    /\ last.srv.cd = <<"f", "i", "l", "e", "n", "a", "m", "e", "=", "\"", "o">>
    /\ last.api.data = [Filename |-> <<"d", "o", "w", "n", "l", "o", "a", "d", ".", "z", "i", "p">>,
                        Body |-> "open"]

C16_ParsedWitness ==
    /\ DownloadAnswered
    /\ last.srv.status = 200
    /\ CompleteToken(last.srv.cd)
    /\ last.api.data.Filename = <<"o">>

\* the temporary archives present in a file system
TempFiles(fs) == {p \in DOMAIN fs : fs[p].kind = "tmp"}

\* C17: when the archive builder of files upload fails after it has created its
\* temporary file (a walk, open or copy error), no request is sent and the
\* temporary archive is removed: the run leaves no temporary archive that was
\* not there before it.
C17_TempRemovedOnBuilderFailure ==
    [][(/\ last'.stage = "done"
        /\ last'.cmd = "files upload"
        /\ PositionsOf(last'.events, "build:fail") # {})
           => /\ last'.reqs = <<>>
              /\ TempFiles(fsys') \subseteq TempFiles(fsys)]_vars

\* a login whose RunE ran
LoginRan == Done /\ last.cmd = "login" /\ last.ran

\* C18: after a login run the credential record either holds both the token sent
\* and the email of the answer (the run succeeded) or is exactly what the run
\* found (the run failed at any step: no token typed, a transport error, a
\* non-200 status, authenticated=false, a failure while saving either field).
C18_LoginAllOrNothing ==
    LoginRan =>
        IF last.err = NoErr
        THEN /\ last.reqs # <<>>
             /\ cfgFile = OkFile(last.reqs[1].auth, last.srv.email)
        ELSE cfgFile = last.cfg0

\* the input of a files upload run is an existing file named as an archive
ArchiveInput(fs, p) ==
    /\ p \in DOMAIN fs
    /\ fs[p].kind # "dir"
    /\ \/ HasSuffix(ToLower(p), <<".", "z", "i", "p">>)
       \/ HasSuffix(ToLower(p), <<".", "t", "a", "r", ".", "g", "z">>)
       \/ HasSuffix(ToLower(p), <<".", "t", "g", "z">>)

\* C19: a files upload run removes and modifies no file that existed before it,
\* the input path included; what it adds is at most a temporary archive; when the
\* input is an existing .zip, .tar.gz or .tgz file, no archive is built and every
\* request sent carries that file's content under its base name.
C19_InputUntouched ==
    [][(last'.stage = "done" /\ last'.cmd = "files upload")
           => /\ \A p \in DOMAIN fsys : p \in DOMAIN fsys' /\ fsys'[p] = fsys[p]
              /\ DOMAIN fsys' \ DOMAIN fsys \subseteq TempFiles(fsys')
              /\ last'.ran /\ ArchiveInput(fsys, last'.in.inputPath) =>
                    /\ last'.built = NoStr
                    /\ \A k \in 1..Len(last'.reqs) :
                          last'.reqs[k].body.archive =
                              [filename |-> Base(last'.in.inputPath, last'.in.host),
                               content |-> fsys[last'.in.inputPath].data]]_vars

\* a leftover temporary archive given as the input was uploaded and is still there
C19_Witness ==
    /\ Uploaded
    /\ last.in.inputPath = <<"u", "0", ".", "z", "i", "p">>
    /\ last.built = NoStr
    /\ last.in.inputPath \in DOMAIN fsys
    /\ last.reqs[1].body.archive.filename = last.in.inputPath

\* a .tgz input was uploaded as it is, and the upload failed
C19_FailureWitness ==
    /\ Uploaded
    /\ last.in.inputPath = <<"q", ".", "t", "g", "z">>
    /\ IsErr(last.err)
    /\ last.reqs[1].body.archive.content = "orig"
    /\ fsys[last.in.inputPath] = [kind |-> "file", data |-> "orig"]

====
